---- MODULE Spec2Model ----
(***************************************************************************)
(* A model of core/import_step.py: the OSM importer (endpoint failover,    *)
(* staging reset, derived datasets) and the GIP importer (archive          *)
(* extraction, create_csv / create_sql artifacts, per-task table load).    *)
(* The database, the bulk loaders and the settings helper are              *)
(* collaborators; they are modelled by their contracts.                    *)
(***************************************************************************)
EXTENDS Integers, Sequences, FiniteSets, TLC

\* ------------------------------------------------------------------ bounds

\* longest Endpoint List considered
MaxEndpoints == 3
\* importer invocations (run_step calls) per behaviour
MaxRuns == 2

\* ------------------------------------------------------------------ state

VARIABLES
    settings,                 \* run_step's settings dict: key -> value
    overpass_api_endpoints,   \* global_settings.overpass_api_endpoints
    conflictPolicy,           \* how handle_conflicting_output_tables treats an existing table
    run,                      \* number of run_step invocations started
    pc,                       \* position inside run_step
    error,                    \* the exception that ended the run ("none" while running)
    use_overpass_api,         \* local of OsmImporter.run_step
    curEndpointIndex,         \* local of _load_osm_from_bbox
    success,                  \* local of _load_osm_from_bbox
    attempts,                 \* urlretrieve calls of this run, in order
    osmFile,                  \* content of data_directory/osm_download_fname
    committed,                \* database: committed tables
    tx,                       \* database: the connection's view (committed + pending)
    loaderCalls,              \* import_osm invocations of this run
    dsIdx,                    \* index of the dataset block being executed
    createLog,                \* datasets for which CREATE TABLE ran in this run
    checkLog,                 \* handle_conflicting_output_tables calls of this run
    dbAtStart,                \* the committed tables when this run started
    finished,                 \* outcomes of the runs that ended, oldest first
    archive,                  \* the members of the zip file settings['filename_A']
    disk,                     \* the files of the extraction directory: path -> file
    taskIdx,                  \* index into files_A of the loop being executed
    trace,                    \* the steps GipImporter.run_step executed in this run
    calls,                    \* zf.extract / create_csv / create_sql calls, in order
    diskAtStart               \* the files when this run started

vars == <<settings, overpass_api_endpoints, conflictPolicy, run, pc, error,
          use_overpass_api, curEndpointIndex, success, attempts, osmFile,
          committed, tx, loaderCalls, dsIdx, createLog, checkLog, dbAtStart,
          finished, archive, disk, taskIdx, trace, calls, diskAtStart>>

\* the variables only the GIP importer and the format compiler use
gipVars == <<archive, disk, taskIdx, trace, calls, diskAtStart>>

\* the variables only the OSM importer uses
osmVars == <<settings, overpass_api_endpoints, conflictPolicy, use_overpass_api,
             curEndpointIndex, success, attempts, osmFile, loaderCalls, dsIdx,
             createLog, checkLog>>

\* ------------------------------------------------------------ collaborators

\* toolbox.helper.has_keys: every key is in the dict
has_keys(obj, keys) == \A key \in keys : key \in DOMAIN obj

\* toolbox.helper.has_any_key: some key is in the dict
has_any_key(obj, keys) == \E key \in keys : key \in DOMAIN obj

Absent == [exists |-> FALSE]

STAGING == <<"osm_point", "osm_line", "osm_polygon", "osm_nodes", "osm_rels",
             "osm_roads", "osm_ways">>

\* a helper list that forgets one table
HELPERS_WithoutWays == <<"osm_nodes", "osm_rels", "osm_roads">>

\* lines 255-258: the tables dropped after the bulk load
HELPERS == <<"osm_nodes", "osm_rels", "osm_roads", "osm_ways">>

DATASETS == <<"building", "crossing", "facility", "greenness", "water">>

\* the staging tables each dataset's SELECT reads
DatasetInputs(name) ==
    CASE name = "building"  -> {"osm_polygon"}
      [] name = "crossing"  -> {"osm_point", "osm_line", "osm_polygon"}
      [] name = "facility"  -> {"osm_point", "osm_polygon"}
      [] name = "greenness" -> {"osm_polygon"}
      [] name = "water"     -> {"osm_line", "osm_polygon"}

\* the elements of a list
Range(s) == {s[i] : i \in 1..Len(s)}

OsmTables == Range(STAGING) \cup Range(DATASETS)

\* PostgresConnection.drop_table: DROP TABLE IF EXISTS inside the transaction
drop_table(view, name) == [view EXCEPT ![name] = Absent]

RECURSIVE drop_tables(_, _)
drop_tables(view, names) ==
    IF names = <<>> THEN view
    ELSE drop_tables(drop_table(view, Head(names)), Tail(names))

\* PostgresConnection.handle_conflicting_output_tables: TRUE = safe to (re)create.
\* An absent table is safe; an existing one is kept (FALSE) under "skip" and
\* dropped inside the transaction (TRUE) under "overwrite".
handle_conflicting_output_tables(view, name) ==
    IF ~view[name].exists THEN [safe |-> TRUE, view |-> view]
    ELSE IF conflictPolicy = "skip" THEN [safe |-> FALSE, view |-> view]
    ELSE [safe |-> TRUE, view |-> drop_table(view, name)]

\* osm2pgsql (import_osm): (re)creates the seven prefix tables from the file
Osm2pgsql(view, path, content) ==
    [t \in DOMAIN view |->
        IF t \in Range(STAGING)
        THEN [exists |-> TRUE, run |-> run, path |-> path, content |-> content]
        ELSE view[t]]

\* ------------------------------------------------------------------ query

q_template == <<"[timeout:900][maxsize:1073741824];nwr(", "__bbox__", ");out;">>

\* str.replace on the template's tokens
Replace(s, old, new) == [i \in 1..Len(s) |-> IF s[i] = old THEN new ELSE s[i]]

q_str(bbox) == Replace(q_template, "__bbox__", bbox)

\* urllib.parse.quote_plus: an injective encoding of the query
quote_plus(q) == [quoted |-> q]

Url(endpoint, q) == [endpoint |-> endpoint, data |-> quote_plus(q)]

\* ------------------------------------------------------------ OSM importer

osm_download_fname == "osm_download.xml"

SuppliedFile == "extract.osm.pbf"

ENDPOINTS == <<"A", "B", "C", "D", "E">>

BBoxes == {"1,2,3,4", "5,6,7,8"}

Keys == {"filename", "bbox", "place_name"}

ValueOf(key) ==
    CASE key = "filename"   -> {SuppliedFile}
      [] key = "bbox"       -> BBoxes
      [] key = "place_name" -> {"Salzburg"}

SettingsSet ==
    UNION {{s \in [ks -> UNION {ValueOf(k) : k \in ks}] :
                \A k \in ks : s[k] \in ValueOf(k)} : ks \in SUBSET Keys}

\* the file a path names, as import_osm finds it on disk
FileAt(path) ==
    IF path = osm_download_fname THEN osmFile
    ELSE [exists |-> TRUE, by |-> "user", complete |-> TRUE]

Fail(e) ==
    /\ pc' = "failed"
    /\ error' = e
    /\ tx' = committed
    /\ finished' = Append(finished, e)

\* run_step is entered: lines 212-222
StartOsm ==
    /\ pc \in {"idle", "done", "failed"}
    /\ run < MaxRuns
    /\ run' = run + 1
    /\ pc' = "check_settings"
    /\ error' = "none"
    /\ use_overpass_api' = FALSE
    /\ curEndpointIndex' = 0
    /\ success' = FALSE
    /\ attempts' = <<>>
    /\ loaderCalls' = <<>>
    /\ createLog' = <<>>
    /\ checkLog' = <<>>
    /\ dbAtStart' = committed
    /\ dsIdx' = 0
    /\ tx' = committed
    /\ UNCHANGED <<settings, overpass_api_endpoints, conflictPolicy, osmFile,
                   committed, finished>>
    /\ UNCHANGED gipVars

\* lines 225-232: which acquisition path the settings select
AcquirePath_NoSelectorCheck(s) ==
    IF has_keys(s, {"filename"}) THEN "file"
    ELSE IF has_keys(s, {"bbox"}) THEN "bbox"
    ELSE "place_name"

AcquirePath(s) ==
    IF has_keys(s, {"filename"}) THEN "file"
    ELSE IF ~has_any_key(s, {"place_name", "bbox"}) THEN "none"
    ELSE IF has_keys(s, {"bbox"}) THEN "bbox"
    ELSE "place_name"

\* lines 225-233
CheckSettings ==
    /\ pc = "check_settings"
    /\ LET path == AcquirePath(settings)
       IN CASE path = "file" ->
                 /\ pc' = "drop_staging"
                 /\ UNCHANGED <<use_overpass_api, error, tx, finished>>
            [] path = "none" ->
                 /\ Fail("ConfigurationError")
                 /\ UNCHANGED use_overpass_api
            [] OTHER ->
                 /\ use_overpass_api' = TRUE
                 /\ pc' = IF path = "bbox" THEN "download" ELSE "check_place"
                 /\ UNCHANGED <<error, tx, finished>>
    /\ UNCHANGED <<settings, overpass_api_endpoints, conflictPolicy, run,
                   curEndpointIndex, success, attempts, osmFile, committed,
                   loaderCalls, dsIdx, createLog, checkLog, dbAtStart>>
    /\ UNCHANGED gipVars

\* line 191: the while condition
LoopCond_NoSuccessTest == curEndpointIndex < Len(overpass_api_endpoints)

LoopCond == curEndpointIndex < Len(overpass_api_endpoints) /\ ~success

\* lines 199 and 202: the index after a failed attempt
NextIndex_Skip(i) == i + 2

\* a failed attempt that leaves the index where it was
NextIndex_Stay(i) == i

NextIndex(i) == i + 1

\* the query an attempt sends: line 195
AttemptQuery(bbox, i) == q_str(bbox)

\* lines 191-206: one iteration of the failover loop
Attempt ==
    /\ pc = "download"
    /\ LoopCond
    /\ LET endpoint == overpass_api_endpoints[curEndpointIndex + 1]
           url == Url(endpoint, AttemptQuery(settings["bbox"], curEndpointIndex))
       IN \E outcome \in {"ok", "HTTPError", "partial", "refused"} :
            /\ attempts' = Append(attempts, [url |-> url, ok |-> outcome = "ok"])
            /\ success' = (outcome = "ok")
            /\ curEndpointIndex' =
                 IF outcome = "ok" THEN curEndpointIndex ELSE NextIndex(curEndpointIndex)
            \* urlretrieve writes the target file once the response is open; an
            \* error raised while reading leaves what was written so far
            /\ osmFile' =
                 CASE outcome = "ok" ->
                        [exists |-> TRUE, by |-> endpoint, complete |-> TRUE]
                   [] outcome = "partial" ->
                        [exists |-> TRUE, by |-> endpoint, complete |-> FALSE]
                   [] OTHER -> osmFile
    /\ UNCHANGED <<settings, overpass_api_endpoints, conflictPolicy, run, pc, error,
                   use_overpass_api, committed, tx, loaderCalls, dsIdx, createLog, checkLog, dbAtStart,
                   finished>>
    /\ UNCHANGED gipVars

\* a loop exit that does not raise when no endpoint answered
LoopExit_NoRaise ==
    /\ pc = "download"
    /\ ~LoopCond
    /\ pc' = "check_place"
    /\ UNCHANGED <<error, tx, finished>>
    /\ UNCHANGED <<settings, overpass_api_endpoints, conflictPolicy, run,
                   use_overpass_api, curEndpointIndex, success, attempts, osmFile,
                   committed, loaderCalls, dsIdx, createLog, checkLog, dbAtStart>>
    /\ UNCHANGED gipVars

\* lines 207-209: after the loop
LoopExit ==
    /\ pc = "download"
    /\ ~LoopCond
    /\ IF ~success
       THEN Fail("DownloadExhausted")
       ELSE /\ pc' = "check_place"
            /\ UNCHANGED <<error, tx, finished>>
    /\ UNCHANGED <<settings, overpass_api_endpoints, conflictPolicy, run,
                   use_overpass_api, curEndpointIndex, success, attempts, osmFile,
                   committed, loaderCalls, dsIdx, createLog, checkLog, dbAtStart>>
    /\ UNCHANGED gipVars

\* lines 235-236
CheckPlace ==
    /\ pc = "check_place"
    /\ IF has_keys(settings, {"place_name"})
       THEN Fail("NotImplementedError")
       ELSE /\ pc' = "drop_staging"
            /\ UNCHANGED <<error, tx, finished>>
    /\ UNCHANGED <<settings, overpass_api_endpoints, conflictPolicy, run,
                   use_overpass_api, curEndpointIndex, success, attempts, osmFile,
                   committed, loaderCalls, dsIdx, createLog, checkLog, dbAtStart>>
    /\ UNCHANGED gipVars

\* lines 241-247: the seven staging tables are dropped inside the transaction
DropStaging ==
    /\ pc = "drop_staging"
    /\ \E ok \in BOOLEAN :
         IF ok
         THEN /\ tx' = drop_tables(tx, STAGING)
              /\ pc' = "commit_drop"
              /\ UNCHANGED <<error, finished>>
         ELSE Fail("DatabaseError")
    /\ UNCHANGED <<settings, overpass_api_endpoints, conflictPolicy, run,
                   use_overpass_api, curEndpointIndex, success, attempts, osmFile,
                   committed, loaderCalls, dsIdx, createLog, checkLog, dbAtStart>>
    /\ UNCHANGED gipVars

\* db.commit(): lines 248, 259 and each dataset's commit
Commit(next) ==
    /\ committed' = tx
    /\ pc' = next
    /\ UNCHANGED <<tx, error, finished>>

\* line 248
CommitDrop ==
    /\ pc = "commit_drop"
    /\ Commit("import_osm")
    /\ UNCHANGED <<settings, overpass_api_endpoints, conflictPolicy, run,
                   use_overpass_api, curEndpointIndex, success, attempts, osmFile,
                   loaderCalls, dsIdx, createLog, checkLog, dbAtStart>>
    /\ UNCHANGED gipVars

\* lines 250-252: the file handed to the loader
\* a loader that is always given the download file
LoaderFile_AlwaysDownload == osm_download_fname

LoaderFile ==
    IF ~use_overpass_api THEN settings["filename"] ELSE osm_download_fname

\* line 253: osm2pgsql runs as its own process and commits on its own
ImportOsm ==
    /\ pc = "import_osm"
    /\ LET path == LoaderFile
       IN /\ loaderCalls' = Append(loaderCalls, [path |-> path, content |-> FileAt(path)])
          /\ \E ok \in BOOLEAN :
               IF ok /\ FileAt(path).exists /\ FileAt(path).complete
               THEN /\ committed' = Osm2pgsql(committed, path, FileAt(path))
                    /\ tx' = Osm2pgsql(tx, path, FileAt(path))
                    /\ pc' = "drop_helpers"
                    /\ UNCHANGED <<error, finished>>
               ELSE /\ Fail("ExternalToolError")
                    /\ UNCHANGED committed
    /\ UNCHANGED <<settings, overpass_api_endpoints, conflictPolicy, run,
                   use_overpass_api, curEndpointIndex, success, attempts, osmFile,
                   dsIdx, createLog, checkLog, dbAtStart>>
    /\ UNCHANGED gipVars

\* lines 255-258
DropHelpers ==
    /\ pc = "drop_helpers"
    /\ \E ok \in BOOLEAN :
         IF ok
         THEN /\ tx' = drop_tables(tx, HELPERS)
              /\ pc' = "commit_helpers"
              /\ UNCHANGED <<error, finished>>
         ELSE Fail("DatabaseError")
    /\ UNCHANGED <<settings, overpass_api_endpoints, conflictPolicy, run,
                   use_overpass_api, curEndpointIndex, success, attempts, osmFile,
                   committed, loaderCalls, dsIdx, createLog, checkLog, dbAtStart>>
    /\ UNCHANGED gipVars

\* line 259
CommitHelpers ==
    /\ pc = "commit_helpers"
    /\ Commit("dataset_check")
    /\ dsIdx' = 1
    /\ UNCHANGED <<settings, overpass_api_endpoints, conflictPolicy, run,
                   use_overpass_api, curEndpointIndex, success, attempts, osmFile,
                   loaderCalls, createLog, checkLog, dbAtStart>>
    /\ UNCHANGED gipVars

\* after dataset block i: the next block, or line 360
AfterDataset(i) == IF i < Len(DATASETS) THEN "dataset_check" ELSE "close"

\* the `if` of lines 264, 279, 294, 329, 346
ShouldCreate_Always(safe) == TRUE

ShouldCreate(safe) == safe

\* lines 264, 279, 294, 329, 346: the conflict check of dataset block dsIdx
DatasetCheck ==
    /\ pc = "dataset_check"
    /\ LET r == handle_conflicting_output_tables(tx, DATASETS[dsIdx])
       IN /\ tx' = r.view
          /\ checkLog' = Append(checkLog, [name |-> DATASETS[dsIdx], safe |-> r.safe])
          /\ IF ShouldCreate(r.safe)
             THEN /\ pc' = "dataset_create"
                  /\ dsIdx' = dsIdx
             ELSE /\ pc' = AfterDataset(dsIdx)
                  /\ dsIdx' = IF dsIdx < Len(DATASETS) THEN dsIdx + 1 ELSE dsIdx
    /\ UNCHANGED <<settings, overpass_api_endpoints, conflictPolicy, run, error,
                   use_overpass_api, curEndpointIndex, success, attempts, osmFile,
                   committed, loaderCalls, createLog, dbAtStart, finished>>
    /\ UNCHANGED gipVars

\* lines 265-273 (and the four blocks like it): CREATE TABLE ... AS, CREATE INDEX
DatasetCreate ==
    /\ pc = "dataset_create"
    /\ LET name == DATASETS[dsIdx]
       IN /\ createLog' = Append(createLog, name)
          /\ \E ok \in BOOLEAN :
               IF /\ ok
                  /\ ~tx[name].exists
                  /\ \A t \in DatasetInputs(name) : tx[t].exists
               THEN /\ tx' = [tx EXCEPT ![name] =
                                 [exists |-> TRUE, run |-> run,
                                  from |-> [t \in DatasetInputs(name) |-> tx[t].run]]]
                    /\ pc' = "dataset_commit"
                    /\ UNCHANGED <<error, finished>>
               ELSE Fail("DatabaseError")
    /\ UNCHANGED <<settings, overpass_api_endpoints, conflictPolicy, run,
                   use_overpass_api, curEndpointIndex, success, attempts, osmFile,
                   committed, loaderCalls, dsIdx, checkLog, dbAtStart>>
    /\ UNCHANGED gipVars

\* a dataset block without its db.commit(): the created table stays in the
\* open transaction
DatasetCommitEffect_NoCommit(next) ==
    /\ pc' = next
    /\ UNCHANGED <<committed, tx, error, finished>>

\* lines 274, 289, 324, 341, 355: db.commit() closes each dataset block
DatasetCommitEffect(next) ==
    Commit(next)

\* lines 274, 289, 324, 341, 355
DatasetCommit ==
    /\ pc = "dataset_commit"
    /\ DatasetCommitEffect(AfterDataset(dsIdx))
    /\ dsIdx' = IF dsIdx < Len(DATASETS) THEN dsIdx + 1 ELSE dsIdx
    /\ UNCHANGED <<settings, overpass_api_endpoints, conflictPolicy, run,
                   use_overpass_api, curEndpointIndex, success, attempts, osmFile,
                   loaderCalls, createLog, checkLog, dbAtStart>>
    /\ UNCHANGED gipVars

\* line 360
CloseOsm ==
    /\ pc = "close"
    /\ pc' = "done"
    /\ finished' = Append(finished, "ok")
    /\ UNCHANGED <<settings, overpass_api_endpoints, conflictPolicy, run, error,
                   use_overpass_api, curEndpointIndex, success, attempts, osmFile,
                   committed, tx, loaderCalls, dsIdx, createLog, checkLog, dbAtStart>>
    /\ UNCHANGED gipVars

\* the database before the first run: nothing, or the result of an earlier import
InitialDbs ==
    LET old == [exists |-> TRUE, run |-> 0]
    IN { [t \in OsmTables |-> Absent],
         [t \in OsmTables |-> IF t \in {"osm_point", "osm_line", "osm_polygon",
                                        "building", "facility"}
                              THEN old ELSE Absent],
         [t \in OsmTables |-> IF t \in Range(HELPERS) THEN Absent ELSE old] }

InitOsm ==
    /\ settings \in SettingsSet
    /\ \E n \in 0..MaxEndpoints : overpass_api_endpoints = SubSeq(ENDPOINTS, 1, n)
    /\ conflictPolicy \in {"skip", "overwrite"}
    /\ run = 0
    /\ pc = "idle"
    /\ error = "none"
    /\ use_overpass_api = FALSE
    /\ curEndpointIndex = 0
    /\ success = FALSE
    /\ attempts = <<>>
    /\ osmFile \in {Absent, [exists |-> TRUE, by |-> "earlier", complete |-> TRUE]}
    /\ committed \in InitialDbs
    /\ tx = committed
    /\ loaderCalls = <<>>
    /\ dsIdx = 0
    /\ createLog = <<>>
    /\ checkLog = <<>>
    /\ dbAtStart = committed
    /\ finished = <<>>
    /\ archive = <<>>
    /\ disk = <<>>
    /\ taskIdx = 0
    /\ trace = <<>>
    /\ calls = <<>>
    /\ diskAtStart = <<>>

NextOsm ==
    \/ StartOsm
    \/ CheckSettings
    \/ Attempt
    \/ LoopExit
    \/ CheckPlace
    \/ DropStaging
    \/ CommitDrop
    \/ ImportOsm
    \/ DropHelpers
    \/ CommitHelpers
    \/ DatasetCheck
    \/ DatasetCreate
    \/ DatasetCommit
    \/ CloseOsm

SpecOsm == InitOsm /\ [][NextOsm]_vars

\* ------------------------------------------------ text (str) operations

\* a str is a sequence of one-character strings; a text file is the sequence
\* of its lines, each ending in "\n"

\* str.startswith
StartsWith(s, prefix) ==
    Len(s) >= Len(prefix) /\ SubSeq(s, 1, Len(prefix)) = prefix

\* s[n:]
From(s, n) == SubSeq(s, n + 1, Len(s))

\* str.replace(old, ''): leftmost, non-overlapping occurrences are removed
RECURSIVE Remove(_, _)
Remove(s, old) ==
    IF Len(s) < Len(old) THEN s
    ELSE IF SubSeq(s, 1, Len(old)) = old THEN Remove(From(s, Len(old)), old)
    ELSE <<s[1]>> \o Remove(Tail(s), old)

Whitespace == {" ", "\n", "\t", "\r"}

RECURSIVE LStrip(_)
LStrip(s) == IF s # <<>> /\ s[1] \in Whitespace THEN LStrip(Tail(s)) ELSE s

RECURSIVE RStrip(_)
RStrip(s) ==
    IF s # <<>> /\ s[Len(s)] \in Whitespace THEN RStrip(SubSeq(s, 1, Len(s) - 1)) ELSE s

\* str.strip
Strip(s) == RStrip(LStrip(s))

UPPER == <<"A", "B", "C", "D", "E", "F", "G", "H", "I", "J", "K", "L", "M",
           "N", "O", "P", "Q", "R", "S", "T", "U", "V", "W", "X", "Y", "Z">>

LOWERCASE == <<"a", "b", "c", "d", "e", "f", "g", "h", "i", "j", "k", "l", "m",
               "n", "o", "p", "q", "r", "s", "t", "u", "v", "w", "x", "y", "z">>

LowerChar(c) ==
    IF \E i \in 1..Len(UPPER) : UPPER[i] = c
    THEN LOWERCASE[CHOOSE i \in 1..Len(UPPER) : UPPER[i] = c]
    ELSE c

\* str.lower
Lower(s) == [i \in 1..Len(s) |-> LowerChar(s[i])]

\* str.split(sep) for a one-character separator
RECURSIVE Split(_, _)
Split(s, sep) ==
    IF \A i \in 1..Len(s) : s[i] # sep THEN <<s>>
    ELSE LET i == CHOOSE j \in 1..Len(s) :
                      s[j] = sep /\ \A h \in 1..(j - 1) : s[h] # sep
         IN <<SubSeq(s, 1, i - 1)>> \o Split(From(s, i), sep)

\* sep.join(parts)
RECURSIVE Join(_, _)
Join(parts, sep) ==
    IF parts = <<>> THEN <<>>
    ELSE IF Len(parts) = 1 THEN parts[1]
    ELSE parts[1] \o sep \o Join(Tail(parts), sep)

DIGITS == <<"0", "1", "2", "3", "4", "5", "6", "7", "8", "9">>

IsDigit(c) == \E i \in 1..Len(DIGITS) : DIGITS[i] = c

DigitValue(c) == (CHOOSE i \in 1..Len(DIGITS) : DIGITS[i] = c) - 1

\* the longest prefix of digits: the regex group [0-9]*
RECURSIVE DigitPrefix(_)
DigitPrefix(s) ==
    IF s # <<>> /\ IsDigit(s[1]) THEN <<s[1]>> \o DigitPrefix(Tail(s)) ELSE <<>>

\* int(digits) for a non-empty digit string
RECURSIVE IntOf(_)
IntOf(d) ==
    IF Len(d) = 1 THEN DigitValue(d[1])
    ELSE 10 * IntOf(SubSeq(d, 1, Len(d) - 1)) + DigitValue(d[Len(d)])

\* ------------------------------------------------------ format compiler

\* the record-kind prefixes 'tbl;', 'atr;', 'frm;', 'rec;'
TBL == <<"t", "b", "l", ";">>

ATR == <<"a", "t", "r", ";">>

FRM == <<"f", "r", "m", ";">>

REC == <<"r", "e", "c", ";">>

\* the literals '""' and '" "' of line 25
QQ == <<"\"", "\"">>

QSQ == <<"\"", " ", "\"">>

\* line 25: what a rec line contributes to the data file
\* a row written with every double quote taken out
RecRow_StripQuotes(line) == Remove(From(line, 4), <<"\"">>)

\* a row written as it stands after the prefix
RecRow_KeepQuotes(line) == From(line, 4)

RecRow(line) == Remove(Remove(From(line, 4), QQ), QSQ)

\* line 21: open(..., 'w') starts the file empty; 'a' would keep what is there
OpenForWrite_Append(old) == IF old.exists THEN old.content ELSE <<>>

OpenForWrite(old) == <<>>

\* lines 19-25: the scan of create_csv. st.opened: file_csv is bound;
\* st.out: what the sink holds; st.failed: an unbound file_csv was used
RECURSIVE CsvScan(_, _, _)
CsvScan(lines, st, old) ==
    IF lines = <<>> \/ st.failed THEN st
    ELSE LET line == Head(lines)
         IN IF StartsWith(line, TBL)
            THEN CsvScan(Tail(lines), [st EXCEPT !.opened = TRUE,
                                                 !.out = OpenForWrite(old)], old)
            ELSE IF StartsWith(line, ATR)
            THEN IF st.opened
                 THEN CsvScan(Tail(lines),
                              [st EXCEPT !.out = Append(@, From(line, 4))], old)
                 ELSE [st EXCEPT !.failed = TRUE]
            ELSE IF StartsWith(line, REC)
            THEN IF st.opened
                 THEN CsvScan(Tail(lines),
                              [st EXCEPT !.out = Append(@, RecRow(line))], old)
                 ELSE [st EXCEPT !.failed = TRUE]
            ELSE CsvScan(Tail(lines), st, old)

\* create_csv, lines 16-27. src: the txt file; old: the csv file before the call.
\* Result: ok (no exception) and the csv file after the call.
\* a create_csv that opens its sink before it reads the first line
create_csv_OpenFirst(src, old) ==
    IF ~src.exists THEN [ok |-> FALSE, file |-> old]
    ELSE LET st == CsvScan(src.content,
                           [opened |-> TRUE, out |-> <<>>, failed |-> FALSE], old)
         IN [ok |-> TRUE, file |-> [exists |-> TRUE, content |-> st.out]]

create_csv(src, old) ==
    IF ~src.exists THEN [ok |-> FALSE, file |-> old]
    ELSE LET st == CsvScan(src.content,
                           [opened |-> FALSE, out |-> <<>>, failed |-> FALSE], old)
         IN [ok   |-> ~st.failed /\ st.opened,
             file |-> IF st.opened THEN [exists |-> TRUE, content |-> st.out]
                      ELSE old]

Unbound == [bound |-> FALSE]

Bound(v) == [bound |-> TRUE, val |-> v]

\* lines 33-42: the scan of create_sql, up to the first rec line
RECURSIVE SqlScan(_, _)
SqlScan(lines, st) ==
    IF lines = <<>> THEN st
    ELSE LET line == Head(lines)
         IN IF StartsWith(line, TBL)
            THEN SqlScan(Tail(lines),
                         [st EXCEPT !.opened = TRUE,
                                    !.tbl = Bound(Lower(Strip(From(line, 4))))])
            ELSE IF StartsWith(line, ATR)
            THEN SqlScan(Tail(lines),
                         [st EXCEPT !.atr = Bound(Split(Lower(Strip(From(line, 4))), ";"))])
            ELSE IF StartsWith(line, FRM)
            THEN SqlScan(Tail(lines),
                         [st EXCEPT !.frm = Bound(Split(Lower(Strip(From(line, 4))), ";"))])
            ELSE IF StartsWith(line, REC) THEN st
            ELSE SqlScan(Tail(lines), st)

\* lines 44-46
RenameOffset(atr) ==
    [i \in 1..Len(atr) |-> IF atr[i] = <<"o", "f", "f", "s", "e", "t">> THEN <<"o", "f", "f", "s", "e", "t", "_">> ELSE atr[i]]

\* the regex ^(string)[(]([0-9]*)[)]: the digits when it matches
MatchStringN(tok) ==
    LET d == DigitPrefix(From(tok, 7))
    IN IF StartsWith(tok, <<"s", "t", "r", "i", "n", "g", "(">>) /\ StartsWith(From(tok, 7 + Len(d)), <<")">>)
       THEN Bound(d) ELSE Unbound

\* the regex ^(decimal)[(]([0-9]*)[,]([0-9]*)[)]
MatchDecimalPS(tok) ==
    LET p == DigitPrefix(From(tok, 8))
        s == DigitPrefix(From(tok, 9 + Len(p)))
    IN IF /\ StartsWith(tok, <<"d", "e", "c", "i", "m", "a", "l", "(">>)
          /\ StartsWith(From(tok, 8 + Len(p)), <<",">>)
          /\ StartsWith(From(tok, 9 + Len(p) + Len(s)), <<")">>)
       THEN Bound([precision |-> p, scale |-> s]) ELSE Unbound

\* the regex ^(decimal)[(]([0-9]*)[)]
MatchDecimalP(tok) ==
    LET p == DigitPrefix(From(tok, 8))
    IN IF StartsWith(tok, <<"d", "e", "c", "i", "m", "a", "l", "(">>) /\ StartsWith(From(tok, 8 + Len(p)), <<")">>)
       THEN Bound(p) ELSE Unbound

\* lines 60-67: the integer type for decimal(P); int('') raises
IntegerType(precision) ==
    IF precision = <<>> THEN [ok |-> FALSE]
    ELSE LET n == IntOf(precision)
         IN [ok  |-> TRUE,
             val |-> IF n <= 4 THEN <<"s", "m", "a", "l", "l", "i", "n", "t">>
                     ELSE IF n <= 10 THEN <<"i", "n", "t", "e", "g", "e", "r">>
                     ELSE IF n <= 18 THEN <<"b", "i", "g", "i", "n", "t">>
                     ELSE <<"n", "u", "m", "e", "r", "i", "c", "(">> \o precision \o <<")">>]

\* lines 49-67: the column type of one frm token
MapType(tok) ==
    LET first == IF tok = <<"s", "t", "r", "i", "n", "g">> THEN <<"v", "a", "r", "c", "h", "a", "r">> ELSE tok
    IN IF MatchStringN(tok).bound
       THEN [ok |-> TRUE, val |-> <<"v", "a", "r", "c", "h", "a", "r", "(">> \o MatchStringN(tok).val \o <<")">>]
       ELSE IF MatchDecimalPS(tok).bound
       THEN [ok |-> TRUE,
             val |-> <<"n", "u", "m", "e", "r", "i", "c", "(">> \o MatchDecimalPS(tok).val.precision \o <<",">>
                       \o MatchDecimalPS(tok).val.scale \o <<")">>]
       ELSE IF MatchDecimalP(tok).bound
       THEN IntegerType(MatchDecimalP(tok).val)
       ELSE [ok |-> TRUE, val |-> first]

Min(a, b) == IF a <= b THEN a ELSE b

\* line 69: zip(atr, frm) stops at the shorter list
Columns(atr, frm) ==
    [i \in 1..Min(Len(atr), Len(frm)) |-> atr[i] \o <<" ">> \o frm[i]]

\* line 70
Statement(tbl, columns) ==
    <<"C", "R", "E", "A", "T", "E", " ", "T", "A", "B", "L", "E", " ", "g", "i", "p", "_">> \o tbl \o <<" ", "(">> \o Join(columns, <<",", " ">>) \o <<")", ";">>

\* create_sql, lines 30-73. src: the txt file; old: the sql file before the call.
\* A name used before it is bound (atr, frm, tbl) and int('') raise; the sql
\* file was opened (created, emptied) when the tbl line was read.
create_sql(src, old) ==
    IF ~src.exists THEN [ok |-> FALSE, file |-> old]
    ELSE LET st == SqlScan(src.content, [opened |-> FALSE, tbl |-> Unbound,
                                         atr |-> Unbound, frm |-> Unbound])
             ok == /\ st.atr.bound
                   /\ st.frm.bound
                   /\ \A i \in 1..Len(st.frm.val) : MapType(st.frm.val[i]).ok
                   /\ st.tbl.bound
             frm == [i \in 1..Len(st.frm.val) |-> MapType(st.frm.val[i]).val]
         IN [ok   |-> ok,
             file |-> IF ~st.opened THEN old
                      ELSE IF ok
                      THEN [exists |-> TRUE,
                            content |-> <<Statement(st.tbl.val,
                                             Columns(RenameOffset(st.atr.val), frm))>>]
                      ELSE [exists |-> TRUE, content |-> <<>>]]

\* ------------------------------------------------------------ GIP importer

\* tasks of files_A a run works through (the list's first NumTasks entries)
NumTasks == 2

\* lines 129-137, with each file's stem ('BikeHike' of 'BikeHike.txt') and the
\* table name its export file carries in its tbl record
FILES_A ==
    <<
       [filename |-> "BikeHike",
        tbl |-> <<"B", "i", "k", "e", "H", "i", "k", "e">>,
        table |-> <<"g", "i", "p", "_", "b", "i", "k", "e", "h", "i", "k", "e">>,
        columns |-> <<"use_id">>],
       [filename |-> "Link",
        tbl |-> <<"L", "i", "n", "k">>,
        table |-> <<"g", "i", "p", "_", "l", "i", "n", "k">>,
        columns |-> <<"link_id">>],
       [filename |-> "LinkCoordinate",
        tbl |-> <<"L", "i", "n", "k", "C", "o", "o", "r", "d", "i", "n", "a", "t", "e">>,
        table |-> <<"g", "i", "p", "_", "l", "i", "n", "k", "c", "o", "o", "r", "d", "i", "n", "a", "t", "e">>,
        columns |-> <<"link_id", "count">>],
       [filename |-> "LinkUse",
        tbl |-> <<"L", "i", "n", "k", "U", "s", "e">>,
        table |-> <<"g", "i", "p", "_", "l", "i", "n", "k", "u", "s", "e">>,
        columns |-> <<"use_id">>],
       [filename |-> "Link2ReferenceObject",
        tbl |-> <<"L", "i", "n", "k", "2", "R", "e", "f", "e", "r", "e", "n", "c", "e", "O", "b", "j", "e", "c", "t">>,
        table |-> <<"g", "i", "p", "_", "l", "i", "n", "k", "2", "r", "e", "f", "e", "r", "e", "n", "c", "e", "o", "b", "j", "e", "c", "t">>,
        columns |-> <<"idseq">>],
       [filename |-> "Node",
        tbl |-> <<"N", "o", "d", "e">>,
        table |-> <<"g", "i", "p", "_", "n", "o", "d", "e">>,
        columns |-> <<"node_id">>],
       [filename |-> "ReferenceObject",
        tbl |-> <<"R", "e", "f", "e", "r", "e", "n", "c", "e", "O", "b", "j", "e", "c", "t">>,
        table |-> <<"g", "i", "p", "_", "r", "e", "f", "e", "r", "e", "n", "c", "e", "o", "b", "j", "e", "c", "t">>,
        columns |-> <<"refobj_id">>]
    >>

files_A == SubSeq(FILES_A, 1, NumTasks)

\* os.path.splitext(name)[0] + ext, inside the extraction directory
Path(stem, ext) == <<stem, ext>>

Paths == {Path(files_A[k].filename, ext) : k \in 1..NumTasks, ext \in {"txt", "csv", "sql"}}

GipTables == {files_A[k].table : k \in 1..NumTasks}

File(content) == [exists |-> TRUE, content |-> content]

\* export files: the current export of a table, an older export of it, an
\* export without its tbl record, an export without atr and frm records
ValidSource(tbl) ==
    <<TBL \o tbl \o <<"\n">>, <<"a", "t", "r", ";", "I", "D", ";", "O", "F", "F", "S", "E", "T", "\n">>, <<"f", "r", "m", ";", "d", "e", "c", "i", "m", "a", "l", "(", "1", "0", ")", ";", "s", "t", "r", "i", "n", "g", "\n">>,
      <<"r", "e", "c", ";", "\"", "1", "\"", ";", "\"", "a", "\"", "\n">>>>

OlderSource(tbl) ==
    <<TBL \o tbl \o <<"\n">>, <<"a", "t", "r", ";", "I", "D", "\n">>, <<"f", "r", "m", ";", "d", "e", "c", "i", "m", "a", "l", "(", "4", ")", "\n">>, <<"r", "e", "c", ";", "\"", "9", "\"", "\n">>>>

NoTblSource == <<<<"a", "t", "r", ";", "I", "D", "\n">>, <<"f", "r", "m", ";", "d", "e", "c", "i", "m", "a", "l", "(", "4", ")", "\n">>, <<"r", "e", "c", ";", "\"", "1", "\"", "\n">>>>

NoAtrSource(tbl) == <<TBL \o tbl \o <<"\n">>, <<"r", "e", "c", ";", "\"", "1", "\"", "\n">>>>

\* what a task finds: its archive member and the files left by earlier runs
Scenarios(f) ==
    LET older == File(OlderSource(f.tbl))
    IN { [member |-> ValidSource(f.tbl), txt |-> Absent, csv |-> Absent, sql |-> Absent],
         [member |-> ValidSource(f.tbl), txt |-> older,
          csv |-> create_csv(older, Absent).file, sql |-> create_sql(older, Absent).file],
         [member |-> ValidSource(f.tbl), txt |-> Absent,
          csv |-> create_csv(older, Absent).file, sql |-> Absent],
         [member |-> NoTblSource, txt |-> Absent, csv |-> Absent, sql |-> Absent],
         [member |-> NoAtrSource(f.tbl), txt |-> Absent, csv |-> Absent, sql |-> Absent] }

\* the statement prefix a schema file must carry to create a table
CREATE_TABLE == <<"C", "R", "E", "A", "T", "E", " ", "T", "A", "B", "L", "E", " ">>

\* the table name of a CREATE TABLE statement: up to the first blank
CreatedTable(stmt) ==
    LET rest == From(stmt, Len(CREATE_TABLE))
    IN Split(rest, " ")[1]

\* PostgresConnection.execute_sql_from_file: runs the statement of <stem>.sql
\* inside the transaction; an empty or missing file, a text that is no CREATE
\* TABLE statement, and an existing table are errors
execute_sql_from_file(view, file) ==
    IF ~file.exists \/ file.content = <<>> THEN [ok |-> FALSE, view |-> view]
    ELSE LET stmt == file.content[1]
         IN IF ~StartsWith(stmt, CREATE_TABLE) THEN [ok |-> FALSE, view |-> view]
            ELSE LET name == CreatedTable(stmt)
                 IN IF name \in DOMAIN view /\ view[name].exists
                    THEN [ok |-> FALSE, view |-> view]
                    ELSE [ok |-> TRUE,
                          view |-> [t \in DOMAIN view \cup {name} |->
                                      IF t = name
                                      THEN [exists |-> TRUE, run |-> run, ddl |-> stmt,
                                            rows |-> <<>>, key |-> <<>>]
                                      ELSE view[t]]]

\* psql \copy ... WITH CSV HEADER (import_csv, lines 76-79): the rows after the
\* header line go into the table
CopyRows(view, table, file) ==
    [view EXCEPT ![table].rows =
        @ \o (IF file.content = <<>> THEN <<>> ELSE Tail(file.content))]

\* PostgresConnection.add_primary_key
add_primary_key(view, table, columns) == [view EXCEPT ![table].key = columns]

\* the exception leaves run_step: nothing after the failing call is executed
AfterFailure_NextTask(k) ==
    IF k >= 1 /\ k < NumTasks THEN [pc |-> "ensure_csv", task |-> k + 1]
    ELSE [pc |-> "failed", task |-> k]

AfterFailure(k) == [pc |-> "failed", task |-> k]

\* the order of the statements of the loop body, lines 156-168
StepAfter_KeyBeforeLoad(step) ==
    CASE step = "ensure_csv" -> "ensure_sql"
      [] step = "ensure_sql" -> "drop"
      [] step = "drop"       -> "create"
      [] step = "create"     -> "commit_ddl"
      [] step = "commit_ddl" -> "add_key"
      [] step = "add_key"    -> "load"
      [] step = "load"       -> "commit_key"
      [] step = "commit_key" -> "next"

StepAfter_NoDdlCommit(step) ==
    CASE step = "ensure_csv" -> "ensure_sql"
      [] step = "ensure_sql" -> "drop"
      [] step = "drop"       -> "create"
      [] step = "create"     -> "load"
      [] step = "commit_ddl" -> "load"
      [] step = "load"       -> "add_key"
      [] step = "add_key"    -> "commit_key"
      [] step = "commit_key" -> "next"

StepAfter(step) ==
    CASE step = "ensure_csv" -> "ensure_sql"
      [] step = "ensure_sql" -> "drop"
      [] step = "drop"       -> "create"
      [] step = "create"     -> "commit_ddl"
      [] step = "commit_ddl" -> "load"
      [] step = "load"       -> "add_key"
      [] step = "add_key"    -> "commit_key"
      [] step = "commit_key" -> "next"

\* the spec's name of each step
StepName(step) ==
    CASE step = "connect"    -> "CONNECT"
      [] step = "extract"    -> "EXTRACT_ARCHIVE"
      [] step = "ensure_csv" -> "ENSURE_DATA_FILE"
      [] step = "ensure_sql" -> "ENSURE_SCHEMA_FILE"
      [] step = "drop"       -> "DROP_TABLE"
      [] step = "create"     -> "CREATE_TABLE"
      [] step = "commit_ddl" -> "COMMIT"
      [] step = "load"       -> "BULK_LOAD"
      [] step = "add_key"    -> "ADD_KEY"
      [] step = "commit_key" -> "COMMIT"
      [] step = "close"      -> "CLOSE"

Logged(step, k, ok) == Append(trace, [step |-> StepName(step), task |-> k, ok |-> ok])

\* a step of the loop body ended normally: the next statement, the next
\* iteration, or line 173
GipAdvance(step) ==
    /\ trace' = Logged(step, taskIdx, TRUE)
    /\ IF StepAfter(step) = "next"
       THEN IF taskIdx < NumTasks
            THEN pc' = "ensure_csv" /\ taskIdx' = taskIdx + 1
            ELSE pc' = "close" /\ taskIdx' = taskIdx
       ELSE pc' = StepAfter(step) /\ taskIdx' = taskIdx
    /\ UNCHANGED <<error, finished>>

\* a step raised
GipFail(step, e) ==
    /\ trace' = Logged(step, taskIdx, FALSE)
    /\ pc' = AfterFailure(taskIdx).pc
    /\ taskIdx' = AfterFailure(taskIdx).task
    /\ error' = e
    /\ finished' = Append(finished, e)

\* run_step is entered, lines 123-143: connect, init_extensions_and_schema
StartGip ==
    /\ pc \in {"idle", "done", "failed"}
    /\ run < MaxRuns
    /\ run' = run + 1
    /\ pc' = "extract"
    /\ error' = "none"
    /\ taskIdx' = 1
    /\ trace' = <<[step |-> StepName("connect"), task |-> 0, ok |-> TRUE]>>
    /\ calls' = <<>>
    /\ diskAtStart' = disk
    /\ dbAtStart' = committed
    /\ tx' = committed
    /\ UNCHANGED <<committed, finished, archive, disk>>
    /\ UNCHANGED osmVars

\* line 149: is the member missing at the destination?
NeedsExtract(stem) == ~disk[Path(stem, "txt")].exists

\* lines 147-150: one iteration of the extraction loop
ExtractMember ==
    /\ pc = "extract"
    /\ LET stem == files_A[taskIdx].filename
       IN IF NeedsExtract(stem)
          THEN /\ disk' = [disk EXCEPT ![Path(stem, "txt")] = File(archive[stem])]
               /\ calls' = Append(calls, [fn |-> "extract", stem |-> stem])
          ELSE UNCHANGED <<disk, calls>>
    /\ IF taskIdx < NumTasks
       THEN /\ taskIdx' = taskIdx + 1
            /\ UNCHANGED <<pc, trace>>
       ELSE /\ taskIdx' = 1
            /\ pc' = "ensure_csv"
            /\ trace' = Logged("extract", 0, TRUE)
    /\ UNCHANGED <<run, error, committed, tx, dbAtStart, finished, archive, diskAtStart>>
    /\ UNCHANGED osmVars

\* lines 156 and 158: is the derived file missing?
NeedsCompile_Always(stem, ext) == TRUE

NeedsCompile(stem, ext) == ~disk[Path(stem, ext)].exists

\* lines 156-157
EnsureCsv ==
    /\ pc = "ensure_csv"
    /\ LET stem == files_A[taskIdx].filename
           r == create_csv(disk[Path(stem, "txt")], disk[Path(stem, "csv")])
       IN IF NeedsCompile(stem, "csv")
          THEN /\ disk' = [disk EXCEPT ![Path(stem, "csv")] = r.file]
               /\ calls' = Append(calls, [fn |-> "create_csv", stem |-> stem])
               /\ IF r.ok THEN GipAdvance("ensure_csv")
                  ELSE GipFail("ensure_csv", "UnboundLocalError")
          ELSE /\ UNCHANGED <<disk, calls>>
               /\ GipAdvance("ensure_csv")
    /\ UNCHANGED <<run, committed, tx, dbAtStart, archive, diskAtStart>>
    /\ UNCHANGED osmVars

\* lines 158-159
EnsureSql ==
    /\ pc = "ensure_sql"
    /\ LET stem == files_A[taskIdx].filename
           r == create_sql(disk[Path(stem, "txt")], disk[Path(stem, "sql")])
       IN IF NeedsCompile(stem, "sql")
          THEN /\ disk' = [disk EXCEPT ![Path(stem, "sql")] = r.file]
               /\ calls' = Append(calls, [fn |-> "create_sql", stem |-> stem])
               /\ IF r.ok THEN GipAdvance("ensure_sql")
                  ELSE GipFail("ensure_sql", "UnboundLocalError")
          ELSE /\ UNCHANGED <<disk, calls>>
               /\ GipAdvance("ensure_sql")
    /\ UNCHANGED <<run, committed, tx, dbAtStart, archive, diskAtStart>>
    /\ UNCHANGED osmVars

\* line 161
DropTable ==
    /\ pc = "drop"
    /\ \E ok \in BOOLEAN :
         IF ok
         THEN /\ tx' = drop_table(tx, files_A[taskIdx].table)
              /\ GipAdvance("drop")
         ELSE /\ tx' = committed
              /\ GipFail("drop", "DatabaseError")
    /\ UNCHANGED <<run, committed, dbAtStart, archive, disk, calls, diskAtStart>>
    /\ UNCHANGED osmVars

\* line 162
CreateTable ==
    /\ pc = "create"
    /\ LET r == execute_sql_from_file(tx, disk[Path(files_A[taskIdx].filename, "sql")])
       IN \E ok \in BOOLEAN :
            IF ok /\ r.ok
            THEN /\ tx' = r.view
                 /\ GipAdvance("create")
            ELSE /\ tx' = committed
                 /\ GipFail("create", "DatabaseError")
    /\ UNCHANGED <<run, committed, dbAtStart, archive, disk, calls, diskAtStart>>
    /\ UNCHANGED osmVars

\* lines 163 and 168
GipCommit ==
    /\ pc \in {"commit_ddl", "commit_key"}
    /\ committed' = tx
    /\ GipAdvance(pc)
    /\ UNCHANGED <<run, tx, dbAtStart, archive, disk, calls, diskAtStart>>
    /\ UNCHANGED osmVars

\* line 165: psql is a process of its own: it sees what is committed and
\* commits what it loads
BulkLoad ==
    /\ pc = "load"
    /\ LET f == files_A[taskIdx]
           csv == disk[Path(f.filename, "csv")]
       IN \E ok \in BOOLEAN :
            IF ok /\ csv.exists /\ committed[f.table].exists
            THEN /\ committed' = CopyRows(committed, f.table, csv)
                 /\ tx' = CopyRows(tx, f.table, csv)
                 /\ GipAdvance("load")
            ELSE /\ tx' = committed
                 /\ UNCHANGED committed
                 /\ GipFail("load", "CalledProcessError")
    /\ UNCHANGED <<run, dbAtStart, archive, disk, calls, diskAtStart>>
    /\ UNCHANGED osmVars

\* line 167
AddKey ==
    /\ pc = "add_key"
    /\ LET f == files_A[taskIdx]
       IN \E ok \in BOOLEAN :
            IF ok /\ tx[f.table].exists
            THEN /\ tx' = add_primary_key(tx, f.table, f.columns)
                 /\ GipAdvance("add_key")
            ELSE /\ tx' = committed
                 /\ GipFail("add_key", "DatabaseError")
    /\ UNCHANGED <<run, committed, dbAtStart, archive, disk, calls, diskAtStart>>
    /\ UNCHANGED osmVars

\* lines 172-173
CloseGip ==
    /\ pc = "close"
    /\ pc' = "done"
    /\ trace' = Logged("close", 0, TRUE)
    /\ finished' = Append(finished, "ok")
    /\ UNCHANGED <<run, error, committed, tx, dbAtStart, archive, disk, taskIdx,
                   calls, diskAtStart>>
    /\ UNCHANGED osmVars

\* the OSM importer is not used
OsmUnused ==
    /\ settings = <<>>
    /\ overpass_api_endpoints = <<>>
    /\ conflictPolicy = "skip"
    /\ use_overpass_api = FALSE
    /\ curEndpointIndex = 0
    /\ success = FALSE
    /\ attempts = <<>>
    /\ osmFile = Absent
    /\ loaderCalls = <<>>
    /\ dsIdx = 0
    /\ createLog = <<>>
    /\ checkLog = <<>>

InitGip ==
    /\ OsmUnused
    /\ \E sc \in [1..NumTasks -> UNION {Scenarios(files_A[k]) : k \in 1..NumTasks}] :
         /\ \A k \in 1..NumTasks : sc[k] \in Scenarios(files_A[k])
         /\ archive = [stem \in {files_A[k].filename : k \in 1..NumTasks} |->
                         sc[CHOOSE k \in 1..NumTasks : files_A[k].filename = stem].member]
         /\ disk = [p \in Paths |->
                      LET k == CHOOSE j \in 1..NumTasks : files_A[j].filename = p[1]
                      IN CASE p[2] = "txt" -> sc[k].txt
                           [] p[2] = "csv" -> sc[k].csv
                           [] p[2] = "sql" -> sc[k].sql]
    /\ committed \in
         { [t \in GipTables |-> Absent],
           [t \in GipTables |-> [exists |-> TRUE, run |-> 0, ddl |-> <<>>,
                                 rows |-> <<>>, key |-> <<"id">>]] }
    /\ tx = committed
    /\ dbAtStart = committed
    /\ diskAtStart = disk
    /\ run = 0
    /\ pc = "idle"
    /\ error = "none"
    /\ taskIdx = 0
    /\ trace = <<>>
    /\ calls = <<>>
    /\ finished = <<>>

NextGip ==
    \/ StartGip
    \/ ExtractMember
    \/ EnsureCsv
    \/ EnsureSql
    \/ DropTable
    \/ CreateTable
    \/ GipCommit
    \/ BulkLoad
    \/ AddKey
    \/ CloseGip

SpecGip == InitGip /\ [][NextGip]_vars

\* ------------------------------------------- direct calls of the compiler

\* direct calls of create_csv / create_sql per behaviour
MaxCalls == 3

ExportPath(ext) == Path("export", ext)

\* a file that is none of the compiler's outputs
Sentinel == File(<<<<"S", "E", "N", "T", "I", "N", "E", "L", "\n">>>>)

\* the largest precision and length, and the largest scale, of the type
\* tokens the type mapping is applied to
MaxPrecision == 20

MaxScale == 2

\* the decimal numeral of a natural number
RECURSIVE Numeral(_)
Numeral(n) ==
    IF n < Len(DIGITS) THEN <<DIGITS[n + 1]>>
    ELSE Numeral(n \div Len(DIGITS)) \o <<DIGITS[(n % Len(DIGITS)) + 1]>>

\* type tokens that are none of string, string(N), decimal(P,S), decimal(P)
OtherTokens ==
    { <<"d", "a", "t", "e">>,
      <<"v", "a", "r", "c", "h", "a", "r", "(", "5", ")">>,
      <<"x", "s", "t", "r", "i", "n", "g", "(", "5", ")">>,
      <<"s", "t", "r", "i", "n", "g", "(", "5", ")", "x">>,
      <<"d", "e", "c", "i", "m", "a", "l", "(", "5", ")", "x">>,
      <<"d", "e", "c", "i", "m", "a", "l", "(", "5", ",", "2", ")", "x">>,
      <<"d", "e", "c", "i", "m", "a", "l", "(", ")">> }

\* the type tokens of the frm record, by shape
TokenDescs ==
    {[shape |-> "string", p |-> 0, s |-> 0, text |-> <<>>]}
    \cup {[shape |-> "string(N)", p |-> n, s |-> 0, text |-> <<>>] : n \in 0..MaxPrecision}
    \cup {[shape |-> "decimal(P)", p |-> n, s |-> 0, text |-> <<>>] : n \in 0..MaxPrecision}
    \cup {[shape |-> "decimal(P,S)", p |-> n, s |-> m, text |-> <<>>] :
              n \in 0..MaxPrecision, m \in 0..MaxScale}
    \cup {[shape |-> "other", p |-> 0, s |-> 0, text |-> t] : t \in OtherTokens}

\* the token as it stands in the frm record
TokenText(d) ==
    CASE d.shape = "string"       -> <<"s", "t", "r", "i", "n", "g">>
      [] d.shape = "string(N)"    -> <<"s", "t", "r", "i", "n", "g", "(">> \o Numeral(d.p) \o <<")">>
      [] d.shape = "decimal(P)"   -> <<"d", "e", "c", "i", "m", "a", "l", "(">> \o Numeral(d.p) \o <<")">>
      [] d.shape = "decimal(P,S)" -> <<"d", "e", "c", "i", "m", "a", "l", "(">> \o Numeral(d.p) \o <<",">>
                                        \o Numeral(d.s) \o <<")">>
      [] OTHER                    -> d.text

\* an export of one column whose type token is tok
TypeExport(tok) ==
    <<TBL \o <<"t", "\n">>, ATR \o <<"c", "\n">>, FRM \o tok \o <<"\n">>>>

\* the end-to-end example
ParcelsExample ==
    <<<<"t", "b", "l", ";", "p", "a", "r", "c", "e", "l", "s", "\n">>,
      <<"a", "t", "r", ";", "p", "a", "r", "c", "e", "l", "_", "i", "d", ";", "a", "r", "e", "a", "\n">>,
      <<"f", "r", "m", ";", "d", "e", "c", "i", "m", "a", "l", "(", "9", ")", ";", "d", "e", "c", "i", "m", "a", "l", "(", "8", ",", "2", ")", "\n">>,
      <<"r", "e", "c", ";", "\"", "1", "2", "3", "4", "5", "\"", ";", "\"", "1", "0", "0", ".", "5", "0", "\"", "\n">>>>

\* exports whose atr and frm records differ in their number of fields
AtrLongerSource ==
    <<<<"t", "b", "l", ";", "p", "a", "r", "c", "e", "l", "s", "\n">>,
      <<"a", "t", "r", ";", "I", "D", ";", "N", "A", "M", "E", "\n">>,
      <<"f", "r", "m", ";", "d", "e", "c", "i", "m", "a", "l", "(", "4", ")", "\n">>,
      <<"r", "e", "c", ";", "\"", "1", "\"", ";", "\"", "a", "\"", "\n">>>>

FrmLongerSource ==
    <<<<"t", "b", "l", ";", "p", "a", "r", "c", "e", "l", "s", "\n">>,
      <<"a", "t", "r", ";", "I", "D", "\n">>,
      <<"f", "r", "m", ";", "d", "e", "c", "i", "m", "a", "l", "(", "4", ")", ";", "s", "t", "r", "i", "n", "g", "\n">>,
      <<"r", "e", "c", ";", "\"", "1", "\"", "\n">>>>

\* an export with a rec line before its tbl line
RecFirstSource ==
    <<<<"r", "e", "c", ";", "\"", "0", "\"", "\n">>,
      <<"t", "b", "l", ";", "p", "a", "r", "c", "e", "l", "s", "\n">>,
      <<"a", "t", "r", ";", "I", "D", "\n">>,
      <<"f", "r", "m", ";", "d", "e", "c", "i", "m", "a", "l", "(", "4", ")", "\n">>,
      <<"r", "e", "c", ";", "\"", "1", "\"", "\n">>>>

\* an export whose rows hold empty, blank and doubled quotes
QuotesSource ==
    <<<<"t", "b", "l", ";", "p", "a", "r", "c", "e", "l", "s", "\n">>,
      <<"a", "t", "r", ";", "I", "D", ";", "N", "A", "M", "E", ";", "N", "O", "T", "E", "\n">>,
      <<"f", "r", "m", ";", "d", "e", "c", "i", "m", "a", "l", "(", "4", ")", ";", "s", "t", "r", "i", "n", "g", ";", "s", "t", "r", "i", "n", "g", "\n">>,
      <<"r", "e", "c", ";", "\"", "1", "\"", ";", "\"", "\"", ";", "\"", " ", "\"", "\n">>,
      <<"r", "e", "c", ";", "\"", "2", "\"", ";", "\"", "a", "\"", "\"", "b", "\"", ";", "\"", "\"", "\"", " ", "\"", "\n">>,
      <<"r", "e", "c", ";", "\"", "\"", ";", "\"", " ", "\"", ";", "\"", "\"", "\n">>,
      <<"r", "e", "c", ";", "\"", "3", "\"", ";", "\"", "x", " ", "y", "\"", ";", "\"", "z", "\"", "\n">>>>

\* the export files the functions are called on
Exports ==
    { File(ValidSource(<<"p", "a", "r", "c", "e", "l", "s">>)),
      File(OlderSource(<<"p", "a", "r", "c", "e", "l", "s">>)),
      File(NoTblSource),
      File(NoAtrSource(<<"p", "a", "r", "c", "e", "l", "s">>)),
      File(<<>>),
      Absent,
      File(ParcelsExample),
      File(AtrLongerSource),
      File(FrmLongerSource),
      File(RecFirstSource),
      File(QuotesSource) }
    \cup {File(TypeExport(TokenText(d))) : d \in TokenDescs}

\* create_csv(file_txt) or create_sql(file_txt), called on the export file
CallCompiler(fn, ext, r) ==
    /\ pc = "compile"
    /\ Len(calls) < MaxCalls
    /\ disk' = [disk EXCEPT ![ExportPath(ext)] = r.file]
    /\ calls' = Append(calls, [fn |-> fn, ok |-> r.ok,
                               before |-> disk[ExportPath(ext)], after |-> r.file])
    /\ UNCHANGED <<run, pc, error, committed, tx, dbAtStart, finished, archive,
                   taskIdx, trace, diskAtStart>>
    /\ UNCHANGED osmVars

CallCreateCsv ==
    CallCompiler("create_csv", "csv",
                 create_csv(disk[ExportPath("txt")], disk[ExportPath("csv")]))

CallCreateSql ==
    CallCompiler("create_sql", "sql",
                 create_sql(disk[ExportPath("txt")], disk[ExportPath("sql")]))

InitCompile ==
    /\ OsmUnused
    /\ \E txt \in Exports, csv \in {Absent, Sentinel}, sql \in {Absent, Sentinel} :
         disk = [p \in {ExportPath(e) : e \in {"txt", "csv", "sql"}} |->
                   CASE p[2] = "txt" -> txt
                     [] p[2] = "csv" -> csv
                     [] p[2] = "sql" -> sql]
    /\ diskAtStart = disk
    /\ archive = <<>>
    /\ committed = <<>>
    /\ tx = <<>>
    /\ dbAtStart = <<>>
    /\ run = 0
    /\ pc = "compile"
    /\ error = "none"
    /\ taskIdx = 0
    /\ trace = <<>>
    /\ calls = <<>>
    /\ finished = <<>>

NextCompile ==
    \/ CallCreateCsv
    \/ CallCreateSql

SpecCompile == InitCompile /\ [][NextCompile]_vars

\* ------------------------------------------------------- claims: OSM importer

\* C1: the i-th download attempt of a run goes to the i-th endpoint of the
\* list with the query built from the bbox, unchanged; inside the loop the
\* index has advanced by exactly the number of failed attempts; a successful
\* attempt is the last attempt of the run; and from then on the download file
\* is the complete file written by that endpoint.
C1_FailoverInOrder ==
    /\ \A i \in 1..Len(attempts) :
         /\ i <= Len(overpass_api_endpoints)
         /\ attempts[i].url = Url(overpass_api_endpoints[i], q_str(settings["bbox"]))
         /\ attempts[i].ok => i = Len(attempts)
    /\ pc = "download" =>
         curEndpointIndex = Cardinality({i \in 1..Len(attempts) : ~attempts[i].ok})
    /\ (attempts # <<>> /\ attempts[Len(attempts)].ok) =>
         osmFile = [exists |-> TRUE,
                    by |-> overpass_api_endpoints[Len(attempts)],
                    complete |-> TRUE]

\* A and B fail, C succeeds, and C's file reaches the loader
C1_Witness ==
    /\ Len(attempts) = 3
    /\ ~attempts[1].ok /\ ~attempts[2].ok /\ attempts[3].ok
    /\ loaderCalls # <<>>
    /\ loaderCalls[1].content.by = "C"

\* C2: when no endpoint of the list succeeds (the empty list included) the
\* run ends with the download-exhausted error, every endpoint was attempted
\* exactly once, in order, and import_osm was not invoked in that run.
C2_AllEndpointsFail ==
    /\ error = "DownloadExhausted" =>
         /\ pc = "failed"
         /\ Len(attempts) = Len(overpass_api_endpoints)
         /\ \A i \in 1..Len(attempts) :
              /\ attempts[i].url.endpoint = overpass_api_endpoints[i]
              /\ ~attempts[i].ok
         /\ loaderCalls = <<>>
    /\ ( /\ use_overpass_api
         /\ has_keys(settings, {"bbox"})
         /\ pc # "download"
         /\ \A i \in 1..Len(attempts) : ~attempts[i].ok )
       => (pc = "failed" /\ error = "DownloadExhausted")

\* three endpoints, all failing
C2_Witness ==
    /\ error = "DownloadExhausted"
    /\ Len(attempts) = 3

\* C3: with neither filename nor bbox nor place_name the run ends with the
\* configuration error, and no download was attempted, no table was dropped
\* and no loader was invoked.
C3_NoSelector ==
    (DOMAIN settings \cap Keys = {} /\ pc \notin {"idle", "check_settings"}) =>
        /\ pc = "failed"
        /\ error = "ConfigurationError"
        /\ attempts = <<>>
        /\ loaderCalls = <<>>
        /\ committed = dbAtStart
        /\ tx = dbAtStart

\* a run with empty settings over a database that holds staging tables
C3_Witness ==
    /\ DOMAIN settings = {}
    /\ pc = "failed"
    /\ error = "ConfigurationError"
    /\ committed["osm_point"].exists
    /\ overpass_api_endpoints # <<>>

\* C4: without filename and with place_name (bbox present or not) the run
\* makes no download attempt, drops and loads nothing, and ends with the
\* unsupported-selector error.
C4_PlaceNameImmediate ==
    (~has_keys(settings, {"filename"}) /\ has_keys(settings, {"place_name"})) =>
        /\ attempts = <<>>
        /\ loaderCalls = <<>>
        /\ committed = dbAtStart
        /\ pc \in {"done", "failed"} => error = "NotImplementedError"

\* C10: names of the conflict checks of this run that reported safe
SafeChecked ==
    LET safe == SelectSeq(checkLog, LAMBDA c : c.safe)
    IN [i \in 1..Len(safe) |-> safe[i].name]

\* C10: in every run CREATE TABLE is executed for exactly the datasets whose
\* conflict check reported safe, in the order checked (the last one pending
\* while its block is being entered), and a dataset whose check reported
\* unsafe is left as it was; with a collaborator that reports an existing
\* table as not safe, a run that follows a completed run executes no CREATE
\* TABLE and leaves every dataset present and as that run left it.
C10_DatasetsCreatedOnlyWhenSafe ==
    /\ createLog = IF pc = "dataset_create"
                   THEN SubSeq(SafeChecked, 1, Len(SafeChecked) - 1)
                   ELSE SafeChecked
    /\ \A i \in 1..Len(checkLog) :
         /\ checkLog[i].name = DATASETS[i]
         /\ ~checkLog[i].safe =>
              /\ committed[DATASETS[i]] = dbAtStart[DATASETS[i]]
              /\ tx[DATASETS[i]] = dbAtStart[DATASETS[i]]
    /\ ( /\ conflictPolicy = "skip"
         /\ run >= 2
         /\ finished[run - 1] = "ok" )
       => /\ createLog = <<>>
          /\ \A i \in 1..Len(DATASETS) :
               /\ committed[DATASETS[i]].exists
               /\ committed[DATASETS[i]] = dbAtStart[DATASETS[i]]

\* the second of two completed runs, the first of which built every dataset
C10_Witness ==
    /\ conflictPolicy = "skip"
    /\ run = 2
    /\ pc = "done"
    /\ finished = <<"ok", "ok">>
    /\ Len(checkLog) = Len(DATASETS)
    /\ \A i \in 1..Len(DATASETS) : committed[DATASETS[i]].run = 1

\* C11 (as stated): a failure while building one dataset neither rolls back a
\* dataset committed earlier in the run nor blocks the datasets that follow:
\* a run that entered the dataset phase and has ended has checked every one of
\* the five datasets, and what it built before the failure is committed.
C11_FailureDoesNotBlock ==
    (pc \in {"done", "failed"} /\ dsIdx >= 1) =>
        /\ Len(checkLog) = Len(DATASETS)
        /\ \A i \in 1..Len(createLog) - 1 :
             /\ committed[createLog[i]].exists
             /\ committed[createLog[i]].run = run

\* C11 (amended): a failure while building dataset k ends the run. The
\* datasets built earlier in the run stay committed, the ones skipped earlier
\* and dataset k itself are as they were when the run started, and the
\* datasets after k are neither checked nor built nor changed in this run.
C11_FailureKeepsEarlierStopsLater ==
    (pc = "failed" /\ dsIdx >= 1) =>
        /\ error = "DatabaseError"
        /\ Len(checkLog) = dsIdx
        /\ createLog # <<>>
        /\ createLog[Len(createLog)] = DATASETS[dsIdx]
        /\ tx = committed
        /\ \A j \in 1..Len(DATASETS) :
             LET name == DATASETS[j]
                 built == \E i \in 1..Len(createLog) : createLog[i] = name
             IN  IF j < dsIdx /\ built
                 THEN /\ committed[name].exists
                      /\ committed[name].run = run
                 ELSE committed[name] = dbAtStart[name]

\* the third dataset fails after the first two were built in this run
C11_Witness ==
    /\ pc = "failed"
    /\ dsIdx = 3
    /\ createLog = <<DATASETS[1], DATASETS[2], DATASETS[3]>>
    /\ committed[DATASETS[1]].exists
    /\ committed[DATASETS[1]].run = run
    /\ ~dbAtStart[DATASETS[1]].exists

\* C12: when the bulk load starts none of the seven staging tables exists, in
\* the transaction or committed; right after the load all seven hold this
\* run's load; and at every dataset-build step the three geometry tables hold
\* the content loaded in this run while none of the four helper tables
\* exists, in the transaction or committed.
C12_StagingReset ==
    LET seven    == {"osm_point", "osm_line", "osm_polygon", "osm_nodes",
                     "osm_rels", "osm_roads", "osm_ways"}
        geometry == {"osm_point", "osm_line", "osm_polygon"}
        helper   == seven \ geometry
        loaded(view, t) ==
            /\ view[t].exists
            /\ view[t].run = run
            /\ loaderCalls # <<>>
            /\ view[t].path = loaderCalls[Len(loaderCalls)].path
            /\ view[t].content = loaderCalls[Len(loaderCalls)].content
    IN  /\ pc = "import_osm" =>
             \A t \in seven : ~committed[t].exists /\ ~tx[t].exists
        /\ pc = "drop_helpers" =>
             \A t \in seven : loaded(committed, t) /\ loaded(tx, t)
        /\ pc \in {"dataset_check", "dataset_create", "dataset_commit"} =>
             /\ \A t \in geometry : loaded(committed, t) /\ loaded(tx, t)
             /\ \A t \in helper : ~committed[t].exists /\ ~tx[t].exists

\* a dataset is being built in a run that found helper tables left by a run
\* that failed between the bulk load and the helper drop
C12_Witness ==
    /\ pc = "dataset_create"
    /\ run = 2
    /\ dbAtStart["osm_ways"].exists
    /\ dbAtStart["osm_point"].exists
    /\ tx["osm_point"].run = 2
    /\ ~tx["osm_ways"].exists

\* the position of an endpoint in the Endpoint List
EndpointPos(e) ==
    CHOOSE k \in 1..Len(overpass_api_endpoints) : overpass_api_endpoints[k] = e

\* what holds of the loop in every state
LoopBounded ==
    LET n == Len(overpass_api_endpoints)
    IN  /\ Len(attempts) <= n
        /\ \A i, j \in 1..Len(attempts) :
             i < j => EndpointPos(attempts[i].url.endpoint)
                        < EndpointPos(attempts[j].url.endpoint)
        /\ pc = "download" =>
             /\ curEndpointIndex <= n
             /\ ENABLED (Attempt \/ LoopExit)
        /\ (use_overpass_api /\ has_keys(settings, {"bbox"}) /\ pc # "download") =>
             \/ success
             \/ pc = "failed" /\ error = "DownloadExhausted"

\* what holds of every step that stays in the loop
LoopProgress ==
    (pc = "download" /\ pc' = "download") =>
        \/ curEndpointIndex' > curEndpointIndex
        \/ /\ curEndpointIndex' = curEndpointIndex
           /\ ~success
           /\ success'

\* C18: the failover loop terminates. For an Endpoint List of length n a run
\* makes at most n attempts, each to an endpoint later in the list than the
\* one before (so none twice and none revisited); inside the loop a step is
\* always possible, and every step that stays in the loop either moves the
\* index forward, or keeps it and turns success from false to true, so at most
\* 2n steps stay in it; and once the loop is left the download has succeeded
\* or the run has failed with the download-exhausted error.
C18_LoopTerminates ==
    /\ [](LoopBounded)
    /\ [][LoopProgress]_vars

\* the loop was left after the last of three endpoints answered
C18_Witness ==
    /\ pc = "check_place"
    /\ Len(overpass_api_endpoints) = MaxEndpoints
    /\ Len(attempts) = MaxEndpoints
    /\ success

\* C20: with 'filename' in the settings a run contacts no endpoint and every
\* file it passes to the bulk loader is the supplied file, whatever other
\* selectors are present; without 'filename', every file passed to the bulk
\* loader is the configured download file, complete and written by the
\* endpoint whose attempt succeeded.
C20_FileSelection ==
    IF has_keys(settings, {"filename"})
    THEN /\ attempts = <<>>
         /\ \A i \in 1..Len(loaderCalls) :
              loaderCalls[i].path = settings["filename"]
    ELSE \A i \in 1..Len(loaderCalls) :
              /\ loaderCalls[i].path = osm_download_fname
              /\ attempts # <<>>
              /\ attempts[Len(attempts)].ok
              /\ loaderCalls[i].content =
                   [exists |-> TRUE,
                    by |-> attempts[Len(attempts)].url.endpoint,
                    complete |-> TRUE]

\* the loader was given the supplied file although a bbox, a place name and
\* endpoints were configured too
C20_Witness ==
    /\ DOMAIN settings = {"filename", "bbox", "place_name"}
    /\ overpass_api_endpoints # <<>>
    /\ loaderCalls # <<>>
    /\ loaderCalls[Len(loaderCalls)].path = SuppliedFile
    /\ pc = "drop_helpers"

\* the run has its extract: a supplied file, or a download that succeeded with
\* no place name left to refuse
AcquisitionComplete ==
    \/ has_keys(settings, {"filename"})
    \/ /\ has_keys(settings, {"bbox"})
       /\ ~has_keys(settings, {"place_name"})
       /\ success
       /\ pc # "download"

\* C21: until a run has its extract no destructive step is taken. While
\* acquisition is not complete, and in particular when the run has failed in
\* it (no selector, place-name selector, every endpoint failed), the seven
\* staging tables and the five datasets are, committed and in the
\* transaction, exactly as they were when the run started, no loader was
\* invoked and no dataset was checked or created.
C21_AcquisitionBeforeDestruction ==
    /\ (pc # "idle" /\ ~AcquisitionComplete) =>
         /\ \A t \in Range(STAGING) \cup Range(DATASETS) :
              /\ committed[t] = dbAtStart[t]
              /\ tx[t] = dbAtStart[t]
         /\ loaderCalls = <<>>
         /\ checkLog = <<>>
         /\ createLog = <<>>
    /\ (pc = "failed" /\ error \in {"ConfigurationError", "NotImplementedError",
                                     "DownloadExhausted"}) =>
         /\ ~AcquisitionComplete
         /\ committed = dbAtStart
         /\ tx = dbAtStart
         /\ loaderCalls = <<>>
         /\ createLog = <<>>

\* every endpoint failed in a run that found staging tables and datasets
\* from an earlier import
C21_Witness ==
    /\ pc = "failed"
    /\ error = "DownloadExhausted"
    /\ Len(attempts) = MaxEndpoints
    /\ committed["osm_point"].exists
    /\ committed["osm_polygon"].exists
    /\ committed["building"].exists

\* ------------------------------------------------------- claims: GIP importer

TaskSteps == <<"ENSURE_DATA_FILE", "ENSURE_SCHEMA_FILE", "DROP_TABLE", "CREATE_TABLE",
               "BULK_LOAD", "ADD_KEY">>

\* the i-th step of a complete run: CONNECT, EXTRACT_ARCHIVE, the six steps of
\* each task in list order, CLOSE
ExpectedStep(i) ==
    IF i = 1 THEN [step |-> "CONNECT", task |-> 0]
    ELSE IF i = 2 THEN [step |-> "EXTRACT_ARCHIVE", task |-> 0]
    ELSE IF i <= 2 + Len(TaskSteps) * NumTasks
    THEN [step |-> TaskSteps[((i - 3) % Len(TaskSteps)) + 1],
          task |-> ((i - 3) \div Len(TaskSteps)) + 1]
    ELSE [step |-> "CLOSE", task |-> 0]

StepsOfRun == SelectSeq(trace, LAMBDA e : e.step # "COMMIT")

\* C5: the steps a run has executed so far are an initial part of CONNECT,
\* EXTRACT_ARCHIVE, then ENSURE_DATA_FILE, ENSURE_SCHEMA_FILE, DROP_TABLE,
\* CREATE_TABLE, BULK_LOAD, ADD_KEY for each task in list order, then CLOSE.
C5_StepOrder ==
    /\ Len(StepsOfRun) <= 3 + Len(TaskSteps) * NumTasks
    /\ \A i \in 1..Len(StepsOfRun) :
         /\ StepsOfRun[i].step = ExpectedStep(i).step
         /\ StepsOfRun[i].task = ExpectedStep(i).task

\* a run that went through every task and closed
C5_Witness ==
    /\ pc = "done"
    /\ Len(StepsOfRun) = 3 + Len(TaskSteps) * NumTasks
    /\ NumTasks >= 2

LastStep == trace[Len(trace)]

\* C6: a commit follows every completed CREATE_TABLE and every completed
\* ADD_KEY; and when the bulk load of task k fails, the committed database
\* holds task k's table as created in this run from its schema file, empty
\* and without key, and the tables of the tasks before k as created, loaded
\* from their data files and keyed in this run.
C6_CommitIsolatesLoadFailure ==
    /\ \A i \in 1..(Len(trace) - 1) :
         (trace[i].step \in {"CREATE_TABLE", "ADD_KEY"} /\ trace[i].ok)
            => trace[i + 1].step = "COMMIT"
    /\ (pc = "failed" /\ LastStep.step = "BULK_LOAD") =>
         LET k == LastStep.task
         IN /\ committed[files_A[k].table] =
                 [exists |-> TRUE, run |-> run,
                  ddl |-> disk[Path(files_A[k].filename, "sql")].content[1],
                  rows |-> <<>>, key |-> <<>>]
            /\ \A j \in 1..(k - 1) :
                 LET t == committed[files_A[j].table]
                     csv == disk[Path(files_A[j].filename, "csv")].content
                 IN /\ t.exists
                    /\ t.run = run
                    /\ t.key = files_A[j].columns
                    /\ t.rows = IF csv = <<>> THEN <<>> ELSE Tail(csv)

\* the load of the second task fails after the first task was loaded
C6_Witness ==
    /\ pc = "failed"
    /\ LastStep.step = "BULK_LOAD"
    /\ LastStep.task = 2
    /\ committed[files_A[1].table].rows # <<>>

\* the file a call writes
Target(call) ==
    Path(call.stem, CASE call.fn = "extract"    -> "txt"
                      [] call.fn = "create_csv" -> "csv"
                      [] call.fn = "create_sql" -> "sql")

\* C7: a file (.txt member, .csv, .sql) that exists when the run starts is
\* the same file at every later point of the run, and neither zf.extract nor
\* create_csv nor create_sql is called for it; once extraction is over every
\* member that was absent has been extracted from the archive.
C7_ExistingFilesKept ==
    /\ \A p \in DOMAIN disk : diskAtStart[p].exists => disk[p] = diskAtStart[p]
    /\ \A i \in 1..Len(calls) : ~diskAtStart[Target(calls[i])].exists
    /\ pc \in {"ensure_csv", "ensure_sql", "drop", "create", "commit_ddl", "load",
               "add_key", "commit_key", "close", "done"} =>
         \A k \in 1..NumTasks :
            LET stem == files_A[k].filename
            IN ~diskAtStart[Path(stem, "txt")].exists =>
                 /\ disk[Path(stem, "txt")] = File(archive[stem])
                 /\ \E i \in 1..Len(calls) : calls[i] = [fn |-> "extract", stem |-> stem]

\* a completed run over a directory that held an older member with its two
\* artifacts for the first task and nothing for the second
C7_Witness ==
    /\ pc = "done"
    /\ LET a == files_A[1].filename
           b == files_A[2].filename
       IN /\ diskAtStart[Path(a, "txt")].exists
          /\ diskAtStart[Path(a, "csv")].exists
          /\ diskAtStart[Path(a, "sql")].exists
          /\ disk[Path(a, "txt")].content # archive[a]
          /\ disk[Path(a, "csv")] # create_csv(File(archive[a]), Absent).file
          /\ ~diskAtStart[Path(b, "txt")].exists
          /\ ~diskAtStart[Path(b, "csv")].exists

\* C8 as stated: a call of create_csv or create_sql that finds its artifact
\* on disk leaves the artifact's content as it was.
C8_ExistingArtifactUntouched ==
    \A i \in 1..Len(calls) :
        calls[i].before.exists => calls[i].after = calls[i].before

\* C8, amended: a call of create_csv or create_sql that follows a successful
\* call of the same function on the same source finds that call's artifact and
\* leaves its content as it was (the source is parsed and the artifact
\* written again; an artifact of any other origin is replaced).
C8_RerunReproducesArtifact ==
    \A i \in 1..Len(calls) :
        (\E j \in 1..(i - 1) : calls[j].fn = calls[i].fn /\ calls[j].ok) =>
            /\ calls[i].ok
            /\ calls[i].before.exists
            /\ calls[i].after = calls[i].before

\* create_csv replaces a sentinel, then is run again on its own output
C8_Witness ==
    /\ Len(calls) >= 2
    /\ calls[1].fn = "create_csv" /\ calls[2].fn = "create_csv"
    /\ calls[1].ok
    /\ calls[1].before = Sentinel
    /\ calls[1].after # Sentinel
    /\ calls[2].after = calls[2].before
    /\ Len(calls[2].after.content) >= 2

\* C9: a step that raised is the last step of its run, and the run has
\* failed; after a failure at task k no later task has a step in the trace or
\* a compiler call, and the tables of the later tasks are as they were when
\* the run started.
C9_FailureIsRunFatal ==
    /\ \A i \in 1..Len(trace) : ~trace[i].ok => (i = Len(trace) /\ pc = "failed")
    /\ pc = "failed" =>
         \A j \in (LastStep.task + 1)..NumTasks :
            /\ committed[files_A[j].table] = dbAtStart[files_A[j].table]
            /\ tx[files_A[j].table] = dbAtStart[files_A[j].table]
            /\ \A i \in 1..Len(trace) : trace[i].task # j
            /\ \A i \in 1..Len(calls) :
                 calls[i].stem = files_A[j].filename => calls[i].fn = "extract"

\* the first task fails while the second task's table exists from before
C9_Witness ==
    /\ pc = "failed"
    /\ LastStep.task = 1
    /\ LastStep.step = "BULK_LOAD"
    /\ NumTasks >= 2
    /\ committed[files_A[2].table].exists

\* the file is what a successful compile of an export writes
CompleteArtifact(file, ext) ==
    \E k \in 1..NumTasks :
        \E src \in {ValidSource(files_A[k].tbl), OlderSource(files_A[k].tbl),
                    NoTblSource, NoAtrSource(files_A[k].tbl)} :
            LET r == IF ext = "csv" THEN create_csv(File(src), Absent)
                                    ELSE create_sql(File(src), Absent)
            IN  r.ok /\ r.file = file

\* C19: in every run, a derived file that exists when its existence check is
\* made (the csv at the create_csv step, the sql at the create_sql step) is
\* what a successful compile writes: no failed compile of an earlier run has
\* left an empty or partial file in its place.
C19_CachedArtifactsComplete ==
    /\ pc = "ensure_csv" =>
         LET file == disk[Path(files_A[taskIdx].filename, "csv")]
         IN  file.exists => CompleteArtifact(file, "csv")
    /\ pc = "ensure_sql" =>
         LET file == disk[Path(files_A[taskIdx].filename, "sql")]
         IN  file.exists => CompleteArtifact(file, "sql")

\* ------------------------------------------------- claims: format compiler

\* the reference table of the type mapping
RefType(d) ==
    CASE d.shape = "string"       -> <<"v", "a", "r", "c", "h", "a", "r">>
      [] d.shape = "string(N)"    -> <<"v", "a", "r", "c", "h", "a", "r", "(">> \o Numeral(d.p) \o <<")">>
      [] d.shape = "decimal(P,S)" -> <<"n", "u", "m", "e", "r", "i", "c", "(">> \o Numeral(d.p) \o <<",">>
                                        \o Numeral(d.s) \o <<")">>
      [] d.shape = "decimal(P)"   ->
            IF d.p <= 4 THEN <<"s", "m", "a", "l", "l", "i", "n", "t">>
            ELSE IF d.p <= 10 THEN <<"i", "n", "t", "e", "g", "e", "r">>
            ELSE IF d.p <= 18 THEN <<"b", "i", "g", "i", "n", "t">>
            ELSE <<"n", "u", "m", "e", "r", "i", "c", "(">> \o Numeral(d.p) \o <<")">>
      [] OTHER                    -> d.text

\* the schema file of the one-column export whose column has type type
TypeSchema(type) ==
    File(<<<<"C", "R", "E", "A", "T", "E", " ", "T", "A", "B", "L", "E", " ", "g", "i", "p", "_", "t", " ", "(", "c", " ">> \o type \o <<")", ";">>>>)

\* C13: for every type token, create_sql called on the export whose frm
\* record holds the token succeeds and writes the statement whose column
\* type is the reference table's: varchar for string, varchar(N) for
\* string(N), numeric(P,S) for decimal(P,S), smallint, integer, bigint or
\* numeric(P) for decimal(P) by the thresholds 4, 10 and 18, and the token
\* itself for every other token.
C13_TypeMappingTable ==
    \A d \in TokenDescs :
        disk[ExportPath("txt")] = File(TypeExport(TokenText(d))) =>
            \A i \in 1..Len(calls) :
                calls[i].fn = "create_sql" =>
                    /\ calls[i].ok
                    /\ calls[i].after = TypeSchema(RefType(d))

\* the number of fields of a record line: one per semicolon
FieldCount(line) == Cardinality({i \in 1..Len(line) : line[i] = ";"})

\* the atr record and the frm record of the export differ in field count
CountsDiffer(src) ==
    /\ src.exists
    /\ \E i, j \in 1..Len(src.content) :
         /\ StartsWith(src.content[i], ATR)
         /\ StartsWith(src.content[j], FRM)
         /\ FieldCount(src.content[i]) # FieldCount(src.content[j])

\* C14: whenever the export's atr and frm records differ in their number of
\* fields, every call of create_sql on it fails, and the schema file it
\* leaves, if any, holds no CREATE TABLE statement.
C14_CountMismatchRejected ==
    CountsDiffer(disk[ExportPath("txt")]) =>
        \A i \in 1..Len(calls) :
            calls[i].fn = "create_sql" =>
                /\ ~calls[i].ok
                /\ calls[i].after.exists =>
                     \A k \in 1..Len(calls[i].after.content) :
                         ~StartsWith(calls[i].after.content[k], CREATE_TABLE)

\* a rec line stands in the export before any tbl line
RecBeforeTbl(src) ==
    /\ src.exists
    /\ \E i \in 1..Len(src.content) :
         /\ StartsWith(src.content[i], REC)
         /\ \A j \in 1..(i - 1) : ~StartsWith(src.content[j], TBL)

\* C15: whenever a rec line stands in the export before any tbl line, every
\* call of create_csv on it fails and writes nothing: the data file is after
\* the call what it was before it (absent, or the file that was there).
C15_RecBeforeTblRejected ==
    RecBeforeTbl(disk[ExportPath("txt")]) =>
        \A i \in 1..Len(calls) :
            calls[i].fn = "create_csv" =>
                /\ ~calls[i].ok
                /\ calls[i].after = calls[i].before

\* create_csv failed on the export that starts with a rec line, and the file
\* that stood in the data file's place is still there
C15_Witness ==
    /\ disk[ExportPath("txt")] = File(RecFirstSource)
    /\ calls # <<>>
    /\ calls[Len(calls)].fn = "create_csv"
    /\ ~calls[Len(calls)].ok
    /\ calls[Len(calls)].before = Sentinel
    /\ disk[ExportPath("csv")] = Sentinel

\* the schema statement of the end-to-end example
ParcelsSchema ==
    File(<<<<"C", "R", "E", "A", "T", "E", " ", "T", "A", "B", "L", "E", " ", "g", "i", "p", "_", "p", "a", "r", "c", "e", "l", "s", " ", "(", "p", "a", "r", "c", "e", "l", "_", "i", "d", " ", "i", "n", "t", "e", "g", "e", "r", ",", " ", "a", "r", "e", "a", " ", "n", "u", "m", "e", "r", "i", "c", "(", "8", ",", "2", ")", ")", ";">>>>)

\* C16 (as stated): on the example export create_sql emits exactly the
\* statement CREATE TABLE gip_parcels (parcel_id integer, area numeric(8,2));
\* and create_csv emits the data row 12345;100.50, the values without their
\* double quotes.
C16_ExampleUnquotedRow ==
    disk[ExportPath("txt")] = File(ParcelsExample) =>
        \A i \in 1..Len(calls) :
            /\ calls[i].ok
            /\ calls[i].fn = "create_sql" => calls[i].after = ParcelsSchema
            /\ calls[i].fn = "create_csv" =>
                 \E k \in 1..Len(calls[i].after.content) :
                     calls[i].after.content[k] = <<"1", "2", "3", "4", "5", ";", "1", "0", "0", ".", "5", "0", "\n">>

\* C16 (amended): on the example export create_sql emits exactly the
\* statement CREATE TABLE gip_parcels (parcel_id integer, area numeric(8,2));
\* and create_csv emits the header row parcel_id;area followed by the data
\* row "12345";"100.50", the values still in their double quotes.
C16_ExampleQuotedRow ==
    disk[ExportPath("txt")] = File(ParcelsExample) =>
        \A i \in 1..Len(calls) :
            /\ calls[i].ok
            /\ calls[i].fn = "create_sql" => calls[i].after = ParcelsSchema
            /\ calls[i].fn = "create_csv" =>
                 calls[i].after = File(<<<<"p", "a", "r", "c", "e", "l", "_", "i", "d", ";", "a", "r", "e", "a", "\n">>,
                                         <<"\"", "1", "2", "3", "4", "5", "\"", ";", "\"", "1", "0", "0", ".", "5", "0", "\"", "\n">>>>)

\* both functions were called on the example export
C16_Witness ==
    /\ disk[ExportPath("txt")] = File(ParcelsExample)
    /\ \E i, j \in 1..Len(calls) :
         /\ calls[i].fn = "create_sql"
         /\ calls[j].fn = "create_csv"
    /\ disk[ExportPath("sql")] = ParcelsSchema
    /\ Len(disk[ExportPath("csv")].content) = Len(ParcelsExample) - 2

\* the export starts with its tbl line and holds no other tbl line
TblFirst(src) ==
    /\ src.exists
    /\ src.content # <<>>
    /\ \A i \in 1..Len(src.content) : StartsWith(src.content[i], TBL) <=> i = 1

IsRec(line) == StartsWith(line, REC)

IsAtrOrRec(line) == StartsWith(line, ATR) \/ StartsWith(line, REC)

\* pat occurs in s
Occurs(pat, s) ==
    \E i \in 1..(Len(s) - Len(pat) + 1) : SubSeq(s, i, i + Len(pat) - 1) = pat

NeitherQuoteNorBlank(c) == c \notin {"\"", " "}

\* row is what the rec line holds after its 4-character prefix, less some
\* double quotes and blanks, and holds neither "" nor " "
CleanedRow(row, line) ==
    /\ ~Occurs(QQ, row)
    /\ ~Occurs(QSQ, row)
    /\ Len(row) <= Len(line) - Len(REC)
    /\ SelectSeq(row, NeitherQuoteNorBlank)
         = SelectSeq(SubSeq(line, Len(REC) + 1, Len(line)), NeitherQuoteNorBlank)

\* C17 (as stated): for an export whose tbl line comes first, the data file
\* create_csv writes holds exactly one line per rec line, in source order,
\* each the rec line without its prefix and without the sequences "" and
\* " "; the tbl, atr and frm lines contribute no line.
C17_OneLinePerRec ==
    TblFirst(disk[ExportPath("txt")]) =>
        \A i \in 1..Len(calls) :
            calls[i].fn = "create_csv" =>
                LET recs == SelectSeq(disk[ExportPath("txt")].content, IsRec)
                    out  == calls[i].after.content
                IN  /\ calls[i].ok
                    /\ Len(out) = Len(recs)
                    /\ \A k \in 1..Len(recs) : CleanedRow(out[k], recs[k])

\* C17 (amended): for an export whose tbl line comes first, the data file
\* create_csv writes holds exactly one line per atr line and per rec line,
\* in source order: the atr line without its prefix (the header row), and
\* each rec line without its prefix and without the sequences "" and " ";
\* the tbl and frm lines contribute no line.
C17_HeaderAndOneLinePerRec ==
    TblFirst(disk[ExportPath("txt")]) =>
        \A i \in 1..Len(calls) :
            calls[i].fn = "create_csv" =>
                LET kept == SelectSeq(disk[ExportPath("txt")].content, IsAtrOrRec)
                    out  == calls[i].after.content
                IN  /\ calls[i].ok
                    /\ Len(out) = Len(kept)
                    /\ \A k \in 1..Len(kept) :
                         IF IsRec(kept[k])
                         THEN CleanedRow(out[k], kept[k])
                         ELSE out[k] = SubSeq(kept[k], Len(ATR) + 1, Len(kept[k]))

\* the data file of the export whose rows hold empty, blank and doubled
\* quotes: its header and its four rows
C17_Witness ==
    /\ disk[ExportPath("txt")] = File(QuotesSource)
    /\ calls # <<>>
    /\ calls[Len(calls)].fn = "create_csv"
    /\ disk[ExportPath("csv")] =
         File(<<<<"I", "D", ";", "N", "A", "M", "E", ";", "N", "O", "T", "E", "\n">>,
                <<"\"", "1", "\"", ";", ";", "\n">>,
                <<"\"", "2", "\"", ";", "\"", "a", "b", "\"", ";", "\n">>,
                <<";", ";", "\n">>,
                <<"\"", "3", "\"", ";", "\"", "x", " ", "y", "\"", ";", "\"", "z", "\"", "\n">>>>)

====
